---- MODULE Spec2Model ----
(***************************************************************************)
(* Model of the price-scraper backend (src/app.py and the scrapers it      *)
(* drives): the job registry `jobs`, the background job thread             *)
(* run_scraper_job, the four pool tasks running worker_process, each with  *)
(* its own SeleniumScraper instance, the output file and the e-mail.       *)
(*                                                                         *)
(* The pool tasks are separate operating-system processes                  *)
(* (multiprocessing.Pool): each has its own copy of the module global      *)
(* `jobs`.  Under the fork start method the copy holds the job record as   *)
(* it was when the pool was created; under spawn the module is imported    *)
(* afresh and the copy is the empty dict of app.py:30.  The start method   *)
(* depends on the platform, so it is chosen nondeterministically.          *)
(* pool.map cuts the four arguments into four tasks of one chunk each; a   *)
(* task is modelled with a process of its own, which is what the server    *)
(* process can tell apart: no pool process writes to its memory.           *)
(*                                                                         *)
(* One job is traced (job ids are fresh uuid4 values and run_scraper_job   *)
(* touches the record of its own id only).  Every outcome of the outside   *)
(* world other than the expected one (a lookup that fails or finds         *)
(* nothing, a challenge wait that times out, an exception) counts as a     *)
(* fault, and a run has at most MaxFaults of them.                         *)
(***************************************************************************)
EXTENDS Integers, Sequences, FiniteSets, TLC

\* ------------------------------------------------------------------ bounds
MaxCodes == 4
MaxFaults == 1

\* ------------------------------------------------------- program constants
num_workers == 4
CloudflareTimeout == 120

WorkerIds == 1..num_workers
JobIds == {"j1"}
NaN == 0
NoJob == [status |-> "absent"]
NoScraper == [driver |-> "unset", cloudflare_solved |-> FALSE, request_count |-> 0]
NoRow == [OEM_CODE |-> NaN]
NoResponse == [endpoint |-> "none", code |-> 0, error |-> "", job_id |-> "", job |-> NoJob]
NoLookup == [adapter |-> "none"]
StartMethods == {"fork", "spawn"}

VARIABLES
    jobs,           \* app.py:30, the registry of the server process
    upload,         \* the uploaded spreadsheet of the job (input_file)
    jpc,            \* position of the job thread in run_scraper_job
    oem_codes,      \* run_scraper_job: oem_codes
    chunks,         \* run_scraper_job: chunks
    worker_results, \* pool.map's result slots, by task index
    all_results,    \* run_scraper_job: all_results
    output_file,    \* the sheet df.to_excel wrote, if it did
    emails,         \* number of e-mails delivered
    start_method,   \* multiprocessing start method of the platform
    wpc,            \* per task: position in worker_process
    idx,            \* per task: number of codes of the chunk already done
    row_data,       \* per task: row_data of the current code
    results,        \* per task: the local list `results`
    raised,         \* per task: an exception is propagating out of the loop
    scraper,        \* per task: the SeleniumScraper instance
    child_jobs,     \* per task: the process's own copy of `jobs`
    waits,          \* per task: calls of wait_for_cloudflare
    closes,         \* per task: calls of SeleniumScraper.close
    quits,          \* per task: calls of driver.quit that returned
    launches,       \* per task: browsers launched by setup_driver
    faults,         \* number of faults injected so far
    response,       \* the last response an endpoint of the server returned
    lookup          \* the last lookup made on a source adapter by itself

jobvars == <<jobs, upload, jpc, oem_codes, chunks, worker_results,
             all_results, output_file, emails, start_method>>
workervars == <<wpc, idx, row_data, results, raised, scraper, child_jobs,
                waits, closes, quits, launches>>
extvars == <<response, lookup>>
vars == <<jobs, upload, jpc, oem_codes, chunks, worker_results,
          all_results, output_file, emails, start_method, wpc, idx, row_data,
          results, raised, scraper, child_jobs, waits, closes, quits,
          launches, faults, response, lookup>>

\* ----------------------------------------------------------------- helpers
Range(s) == {s[i] : i \in 1..Len(s)}

Iota(n) == [i \in 1..n |-> i]

RECURSIVE Flatten(_, _)
\* all_results.extend(results) for the slots 1..n, in slot order
Flatten(slots, n) ==
    IF n = 0 THEN <<>> ELSE Flatten(slots, n - 1) \o slots[n]

CanFault == faults < MaxFaults

\* ------------------------------------------------------------ the upload
\* The OEM_CODE column of an uploaded sheet with n distinct codes: the codes
\* 1..n with an empty cell and repeated codes mixed in.
Column(n) ==
    IF n = 0 THEN <<NaN>> ELSE <<1, NaN>> \o Iota(n) \o <<n>>

\* The sheets a client uploads: with 0..MaxCodes distinct codes, or without
\* the OEM_CODE column.
Uploads ==
    {[has_column |-> TRUE, column |-> Column(n)] : n \in 0..MaxCodes}
    \cup {[has_column |-> FALSE, column |-> <<>>]}

NoUpload == [has_column |-> FALSE, column |-> <<NaN, NaN>>]

dropna(s) == SelectSeq(s, LAMBDA x : x # NaN)

\* a read that keeps every value it finds
keep_all(s) == s

RECURSIVE unique(_)
\* pandas Series.unique: the distinct values in order of first appearance
unique(s) ==
    IF s = <<>> THEN <<>>
    ELSE LET r == unique(SubSeq(s, 1, Len(s) - 1))
             x == s[Len(s)]
         IN  IF x \in Range(r) THEN r ELSE Append(r, x)

\* utils/excel_handler.py: read_oem_codes; "raises" stands for the ValueError
read_oem_codes(file) ==
    IF ~file.has_column
    THEN [raises |-> TRUE, codes |-> <<>>]
    ELSE [raises |-> FALSE, codes |-> unique(dropna(file.column))]

\* ------------------------------------------------------------- chunking
chunk_size(n) == n \div num_workers

\* end_idx without the branch of app.py:111-112 for the last chunk
end_idx_no_remainder(i, n) == i * chunk_size(n) + chunk_size(n)

\* i is the 0-based index of range(num_workers)
end_idx(i, n) ==
    IF i = num_workers - 1 THEN n ELSE i * chunk_size(n) + chunk_size(n)

\* oem_codes[start_idx:end_idx]
Slice(s, from, to) == SubSeq(s, from + 1, to)

make_chunks(codes) ==
    [w \in WorkerIds |->
        Slice(codes, (w - 1) * chunk_size(Len(codes)), end_idx(w - 1, Len(codes)))]

\* ------------------------------------------------------------- scrapers
Record(code, title, price, site, status) ==
    [OEM_CODE |-> code, Title |-> title, Price |-> price, Website |-> site,
     Status |-> status, URL |-> <<site, code>>]

\* what a lookup whose body raised hands on before its except clause
Raised == [raised |-> TRUE, result |-> NoRow]

Returned(record) == [raised |-> FALSE, result |-> record]

\* a lookup without the except clause: the fault reaches the caller
unguarded(outcome, err) == outcome

\* the `except Exception` clause around the body of a lookup
\* (selenium_scraper.py:286-295, hottoner_scraper.py:153-162,
\* inkstation_scraper.py:115-124): a fault becomes the Error record
guarded(outcome, err) ==
    IF outcome.raised THEN Returned(err) ELSE outcome

\* SeleniumScraper.__init__, selenium_scraper.py:19-30
SeleniumScraper ==
    [driver |-> "none", cloudflare_solved |-> FALSE, request_count |-> 0]

\* What the outside world does during one browser lookup.
InkEnvs ==
    [setup_ok : BOOLEAN, get_ok : BOOLEAN,
     solved_at : {0, CloudflareTimeout}, page : {"product", "empty", "broken"}]

InkCost(env) ==
    (IF env.setup_ok THEN 0 ELSE 1) + (IF env.get_ok THEN 0 ELSE 1)
    + (IF env.solved_at = 0 THEN 0 ELSE 1) + (IF env.page = "product" THEN 0 ELSE 1)

\* wait_for_cloudflare: TRUE iff one of the polls 0..timeout-1 sees the page
\* content, which is there from poll solved_at on
wait_for_cloudflare(solved_at, timeout) ==
    \E i \in 0..(timeout - 1) : i >= solved_at

\* the flag set only when the challenge was seen to clear
solved_only_if_cleared(cleared) == cleared

\* selenium_scraper.py:131, the flag after the wait returned `cleared`
solved_after_wait(cleared) == TRUE

\* the extraction of selenium_scraper.py:149-284 on the rendered page
ink_extract(code, page) ==
    CASE page = "product" -> Record(code, "T", "$9.99", "InkStation", "Available")
      [] page = "empty"   -> Record(code, "Not Found", "N/A", "InkStation", "Not Available")
      [] OTHER            -> Record(code, "Error", "N/A", "InkStation", "Error")

\* SeleniumScraper.scrape_inkstation on instance state s
scrape_inkstation(s, code, env) ==
    LET err == Record(code, "Error", "N/A", "InkStation", "Error")
        setup == s.driver = "none"
    IN  IF setup /\ ~env.setup_ok
        THEN [scraper |-> s, waited |-> 0, launched |-> 0] @@ guarded(Raised, err)
        ELSE
        LET s1 == [s EXCEPT !.driver = "live", !.request_count = @ + 1]
            l  == IF setup THEN 1 ELSE 0
        IN  IF ~env.get_ok
            THEN [scraper |-> s1, waited |-> 0, launched |-> l] @@ guarded(Raised, err)
            ELSE
            LET wait == ~s1.cloudflare_solved
                s2 == IF wait
                      THEN [s1 EXCEPT !.cloudflare_solved =
                               solved_after_wait(
                                   wait_for_cloudflare(env.solved_at, CloudflareTimeout))]
                      ELSE s1
            IN  [scraper |-> s2, waited |-> IF wait THEN 1 ELSE 0, launched |-> l]
                @@ guarded(Returned(ink_extract(code, env.page)), err)

\* What the outside world does during one HotToner lookup.
HotEnvs ==
    [response : {"200", "404", "500", "exception"},
     page : {"detail", "list", "none", "broken"}]

HotCost(env) ==
    IF env.response = "200" /\ env.page \in {"detail", "list"} THEN 0 ELSE 1

\* the try body of scrape_hottoner, hottoner_scraper.py:27-151
hottoner_body(code, env) ==
    CASE env.response = "exception" -> Raised
      [] env.response # "200" ->
            Returned(Record(code, "Not Found", "N/A", "HotToner", "Not Available"))
      [] env.page = "broken"  -> Raised
      [] env.page = "none"    ->
            Returned(Record(code, "Not Found", "N/A", "HotToner", "Not Available"))
      [] OTHER                ->
            Returned(Record(code, "T", "$9.99", "HotToner", "Available"))

\* scrapers/hottoner_scraper.py: scrape_hottoner
scrape_hottoner(code, env) ==
    guarded(hottoner_body(code, env),
            Record(code, "Error", "N/A", "HotToner", "Error"))

\* ------------------------------------------- the stateless HTTP lookups
max_retries == 3

\* what one requests.get of make_request ends in
AttemptOutcomes == {"200", "404", "429", "500", "timeout", "connection_error"}

\* an attempt without the last except clause: an exception that is neither
\* a Timeout nor a ConnectionError leaves make_request
after_attempt_uncaught(outcome) ==
    CASE outcome = "200"   -> "return response"
      [] outcome = "404"   -> "return None"
      [] outcome = "error" -> "raise"
      [] OTHER             -> "retry"

\* request_utils.py:57-83: what one pass of the loop body ends in; the three
\* except clauses send every exception of requests.get to the next attempt
after_attempt(outcome) ==
    CASE outcome = "200" -> "return response"
      [] outcome = "404" -> "return None"
      [] OTHER           -> "retry"

RECURSIVE make_request_from(_, _)
\* the loop of utils/request_utils.py:56-89 from attempt `attempt` on
make_request_from(outcomes, attempt) ==
    IF attempt >= max_retries
    THEN [response |-> "None", attempts |-> attempt, raised |-> FALSE]
    ELSE CASE after_attempt(outcomes[attempt + 1]) = "return response" ->
                [response |-> "200", attempts |-> attempt + 1, raised |-> FALSE]
           [] after_attempt(outcomes[attempt + 1]) = "return None" ->
                [response |-> "None", attempts |-> attempt + 1, raised |-> FALSE]
           [] after_attempt(outcomes[attempt + 1]) = "raise" ->
                [response |-> "None", attempts |-> attempt + 1, raised |-> TRUE]
           [] OTHER -> make_request_from(outcomes, attempt + 1)

\* utils/request_utils.py: make_request
make_request(outcomes) == make_request_from(outcomes, 0)

\* What the outside world does during one lookup of the stateless InkStation
\* scraper.
HttpInkEnvs ==
    [attempts : [1..max_retries -> AttemptOutcomes],
     page : {"product", "empty", "broken"}]

\* the try body of scrapers/inkstation_scraper.py:27-113
http_inkstation_body(code, env) ==
    CASE make_request(env.attempts).raised -> Raised
      [] make_request(env.attempts).response = "None" ->
            Returned(Record(code, "Not Found", "N/A", "InkStation", "Not Available"))
      [] env.page = "broken" -> Raised
      [] env.page = "empty"  ->
            Returned(Record(code, "Not Found", "N/A", "InkStation", "Not Available"))
      [] OTHER               ->
            Returned(Record(code, "T", "$9.99", "InkStation", "Available"))

\* scrapers/inkstation_scraper.py: scrape_inkstation
http_scrape_inkstation(code, env) ==
    guarded(http_inkstation_body(code, env),
            Record(code, "Error", "N/A", "InkStation", "Error"))

\* SeleniumScraper.close on instance state s; quit_ok: driver.quit() returns
close(s, quit_ok) ==
    IF s.driver = "live"
    THEN IF quit_ok
         THEN [scraper |-> [s EXCEPT !.driver = "none"], raises |-> FALSE, quit |-> 1]
         ELSE [scraper |-> s, raises |-> TRUE, quit |-> 0]
    ELSE [scraper |-> s, raises |-> FALSE, quit |-> 0]

\* ------------------------------------------------------------ the state
Init ==
    /\ jobs = [id \in JobIds |-> NoJob]
    /\ upload = NoUpload
    /\ jpc = "none"
    /\ oem_codes = <<>>
    /\ chunks = [w \in WorkerIds |-> <<>>]
    /\ worker_results = [w \in WorkerIds |-> <<>>]
    /\ all_results = <<>>
    /\ output_file = [written |-> FALSE, rows |-> <<>>]
    /\ emails = 0
    /\ start_method \in StartMethods
    /\ wpc = [w \in WorkerIds |-> "idle"]
    /\ idx = [w \in WorkerIds |-> 0]
    /\ row_data = [w \in WorkerIds |-> NoRow]
    /\ results = [w \in WorkerIds |-> <<>>]
    /\ raised = [w \in WorkerIds |-> FALSE]
    /\ scraper = [w \in WorkerIds |-> NoScraper]
    /\ child_jobs = [w \in WorkerIds |-> [present |-> FALSE, current |-> 0]]
    /\ waits = [w \in WorkerIds |-> 0]
    /\ closes = [w \in WorkerIds |-> 0]
    /\ quits = [w \in WorkerIds |-> 0]
    /\ launches = [w \in WorkerIds |-> 0]
    /\ faults = 0
    /\ response = NoResponse
    /\ lookup = NoLookup

\* ------------------------------------------------- the submission endpoint
\* app.py:203-254 start_scrape for an accepted request: the job record is
\* created and the background thread started
start_scrape(id, file) ==
    /\ jobs[id] = NoJob
    /\ jpc = "none"
    /\ jobs' = [jobs EXCEPT ![id] =
                  [status |-> "pending", progress |-> [current |-> 0, total |-> 0],
                   message |-> "Job queued"]]
    /\ upload' = file
    /\ jpc' = "start"
    /\ UNCHANGED <<oem_codes, chunks, worker_results, all_results,
                   output_file, emails, start_method, faults>>
    /\ UNCHANGED workervars
    /\ response' = [endpoint |-> "scrape", code |-> 200, error |-> "",
                    job_id |-> id, job |-> NoJob]
    /\ UNCHANGED lookup

\* ------------------------------------------------------ run_scraper_job
\* an except clause that reports the fault and leaves the status as it is
on_exception_message_only(id, what) ==
    [jobs EXCEPT ![id].message = what]

\* app.py:138-141, the except clause of run_scraper_job
on_exception(id, what) ==
    [jobs EXCEPT ![id].status = "error", ![id].message = what]

\* app.py:95-96
job_begin(id) ==
    /\ jpc = "start"
    /\ jobs' = [jobs EXCEPT ![id].status = "running",
                            ![id].message = "Reading OEM codes from file..."]
    /\ jpc' = "read"
    /\ UNCHANGED <<upload, oem_codes, chunks, worker_results,
                   all_results, output_file, emails, start_method, faults>>
    /\ UNCHANGED workervars
    /\ UNCHANGED extvars

\* app.py:98-103
job_read(id) ==
    /\ jpc = "read"
    /\ LET r == read_oem_codes(upload)
       IN  IF r.raises
           THEN /\ jobs' = on_exception(id, "Error: read")
                /\ jpc' = "failed"
                /\ UNCHANGED oem_codes
           ELSE /\ oem_codes' = r.codes
                /\ jobs' = [jobs EXCEPT
                      ![id].progress = [current |-> 0, total |-> Len(r.codes)],
                      ![id].message = "Found OEM codes. Starting parallel scraping..."]
                /\ jpc' = "split"
    /\ UNCHANGED <<upload, chunks, worker_results, all_results,
                   output_file, emails, start_method, faults>>
    /\ UNCHANGED workervars
    /\ UNCHANGED extvars

\* the copy of `jobs` a pool process starts with
child_copy(id, method) ==
    IF method = "fork"
    THEN [present |-> TRUE, current |-> jobs[id].progress.current]
    ELSE [present |-> FALSE, current |-> 0]

\* app.py:105-122: the chunks are built and pool.map hands one task per
\* chunk to the pool
job_dispatch(id) ==
    /\ jpc = "split"
    /\ chunks' = make_chunks(oem_codes)
    /\ wpc' = [w \in WorkerIds |-> "start"]
    /\ child_jobs' = [w \in WorkerIds |-> child_copy(id, start_method)]
    /\ jpc' = "map"
    /\ UNCHANGED <<jobs, upload, oem_codes, worker_results,
                   all_results, output_file, emails, start_method, faults>>
    /\ UNCHANGED <<idx, row_data, results, raised, scraper, waits, closes,
                   quits, launches>>
    /\ UNCHANGED extvars

\* ------------------------------------------------------- worker_process
\* the head of the for loop of app.py:50
loop_head(w, done) == IF done < Len(chunks[w]) THEN "ink" ELSE "finally"

\* app.py:51, row_data of a new iteration
new_row(w, done) ==
    IF done < Len(chunks[w]) THEN [OEM_CODE |-> chunks[w][done + 1]] ELSE NoRow

\* app.py:57-60 and 67-70: the cell the worker takes from a lookup's result
cell(result) == IF "Price" \in DOMAIN result THEN result.Price ELSE "N/A"

\* a worker that keeps a row only when the browser lookup gave a price
append_row_if_priced(rows, row) ==
    IF row["Ink Station"] = "N/A" THEN rows ELSE Append(rows, row)

\* app.py:55-62 and 65-72: the cell of a lookup that returned or raised
worker_cell(outcome) ==
    IF outcome.raised THEN "Error" ELSE cell(outcome.result)

\* app.py:74
append_row(rows, row) == Append(rows, row)

\* a counter that is advanced once per adapter call instead of once per code
increment_per_adapter(copy) ==
    IF copy.present THEN [copy EXCEPT !.current = @ + 2] ELSE copy

\* app.py:77-78 on the process's own copy of `jobs`
increment(copy) ==
    IF copy.present THEN [copy EXCEPT !.current = @ + 1] ELSE copy

\* app.py:38-50: the task starts in a pool process and creates its scraper
worker_start(w) ==
    /\ wpc[w] = "start"
    /\ scraper' = [scraper EXCEPT ![w] = SeleniumScraper]
    /\ results' = [results EXCEPT ![w] = <<>>]
    /\ row_data' = [row_data EXCEPT ![w] = new_row(w, 0)]
    /\ wpc' = [wpc EXCEPT ![w] = loop_head(w, 0)]
    /\ UNCHANGED <<idx, raised, child_jobs, waits, closes, quits, launches>>
    /\ UNCHANGED jobvars
    /\ UNCHANGED faults
    /\ UNCHANGED extvars

\* a worker that gives up its chunk when the browser did not start
after_ink_abort(r) == IF r.scraper.driver = "none" THEN "finally" ELSE "hot"

\* app.py:63-65: the HotToner lookup follows, whatever the first one did
after_ink(r) == "hot"

\* app.py:54-62
worker_ink(w) ==
    /\ wpc[w] = "ink"
    /\ \E env \in InkEnvs :
          \* the outcome of a step the lookup does not take is no input
          /\ scraper[w].driver = "live" => env.setup_ok
          /\ scraper[w].cloudflare_solved => env.solved_at = 0
          /\ faults + InkCost(env) <= MaxFaults
          /\ faults' = faults + InkCost(env)
          /\ LET r == scrape_inkstation(scraper[w], row_data[w].OEM_CODE, env)
             IN  /\ scraper' = [scraper EXCEPT ![w] = r.scraper]
                 /\ waits' = [waits EXCEPT ![w] = @ + r.waited]
                 /\ launches' = [launches EXCEPT ![w] = @ + r.launched]
                 /\ row_data' = [row_data EXCEPT ![w] =
                                    @ @@ ("Ink Station" :> worker_cell(r))]
                 /\ wpc' = [wpc EXCEPT ![w] = after_ink(r)]
    /\ UNCHANGED <<idx, results, raised, child_jobs, closes, quits>>
    /\ UNCHANGED jobvars
    /\ UNCHANGED extvars

\* app.py:65-72
worker_hot(w) ==
    /\ wpc[w] = "hot"
    /\ \E env \in HotEnvs :
          /\ faults + HotCost(env) <= MaxFaults
          /\ faults' = faults + HotCost(env)
          /\ row_data' = [row_data EXCEPT ![w] =
                @ @@ ("Hot Tonner" :>
                       worker_cell(scrape_hottoner(row_data[w].OEM_CODE, env)))]
    /\ wpc' = [wpc EXCEPT ![w] = "append"]
    /\ UNCHANGED <<idx, results, raised, scraper, child_jobs, waits, closes,
                   quits, launches>>
    /\ UNCHANGED jobvars
    /\ UNCHANGED extvars

\* app.py:74-78, then the next iteration of the loop
worker_append(w) ==
    /\ wpc[w] = "append"
    /\ results' = [results EXCEPT ![w] = append_row(@, row_data[w])]
    /\ child_jobs' = [child_jobs EXCEPT ![w] = increment(@)]
    /\ idx' = [idx EXCEPT ![w] = @ + 1]
    /\ row_data' = [row_data EXCEPT ![w] = new_row(w, idx[w] + 1)]
    /\ wpc' = [wpc EXCEPT ![w] = loop_head(w, idx[w] + 1)]
    /\ UNCHANGED <<raised, scraper, waits, closes, quits, launches>>
    /\ UNCHANGED jobvars
    /\ UNCHANGED faults
    /\ UNCHANGED extvars

\* an exception outside the two inner try blocks (a MemoryError, say) leaves
\* the loop of app.py:50-78 for the finally clause: at the head of an
\* iteration (app.py:50-51) or after the lookups (app.py:74-78); no statement
\* stands between the two try blocks
worker_fault(w) ==
    /\ wpc[w] \in {"ink", "append"}
    /\ CanFault
    /\ faults' = faults + 1
    /\ raised' = [raised EXCEPT ![w] = TRUE]
    /\ wpc' = [wpc EXCEPT ![w] = "finally"]
    /\ UNCHANGED <<idx, row_data, results, scraper, child_jobs, waits, closes,
                   quits, launches>>
    /\ UNCHANGED jobvars
    /\ UNCHANGED extvars

\* results kept in the order the tasks complete (imap_unordered)
result_slot_unordered(w, completed) == completed + 1

\* app.py:122: pool.map keeps the result of task w in the slot of its index,
\* whatever the number of tasks that completed before it
result_slot(w, completed) == w

completed_tasks == Cardinality({v \in WorkerIds : wpc[v] \in {"returned", "raised"}})

\* worker_process with close() after the loop instead of in a finally
\* clause: a fault in the loop skips it
worker_close_after_loop(w) ==
    /\ wpc[w] = "finally"
    /\ \E quit_ok \in BOOLEAN :
          /\ quit_ok \/ (CanFault /\ scraper[w].driver = "live" /\ ~raised[w])
          /\ faults' = IF quit_ok THEN faults ELSE faults + 1
          /\ LET c == IF raised[w]
                      THEN [scraper |-> scraper[w], raises |-> FALSE, quit |-> 0]
                      ELSE close(scraper[w], quit_ok)
             IN  /\ scraper' = [scraper EXCEPT ![w] = c.scraper]
                 /\ closes' = [closes EXCEPT ![w] = IF raised[w] THEN @ ELSE @ + 1]
                 /\ quits' = [quits EXCEPT ![w] = @ + c.quit]
                 /\ IF c.raises \/ raised[w]
                    THEN /\ wpc' = [wpc EXCEPT ![w] = "raised"]
                         /\ raised' = [raised EXCEPT ![w] = TRUE]
                         /\ UNCHANGED worker_results
                    ELSE /\ wpc' = [wpc EXCEPT ![w] = "returned"]
                         /\ worker_results' = [worker_results EXCEPT ![w] = results[w]]
                         /\ UNCHANGED raised
    /\ UNCHANGED <<idx, row_data, results, child_jobs, waits, launches>>
    /\ UNCHANGED <<jobs, upload, jpc, oem_codes, chunks, all_results,
                   output_file, emails, start_method>>
    /\ UNCHANGED extvars

\* app.py:80-84: the finally clause, then the task's result goes to the pool
worker_finally(w) ==
    /\ wpc[w] = "finally"
    /\ \E quit_ok \in BOOLEAN :
          /\ quit_ok \/ (CanFault /\ scraper[w].driver = "live")
          /\ faults' = IF quit_ok THEN faults ELSE faults + 1
          /\ LET c == close(scraper[w], quit_ok)
             IN  /\ scraper' = [scraper EXCEPT ![w] = c.scraper]
                 /\ closes' = [closes EXCEPT ![w] = @ + 1]
                 /\ quits' = [quits EXCEPT ![w] = @ + c.quit]
                 /\ IF c.raises \/ raised[w]
                    THEN /\ wpc' = [wpc EXCEPT ![w] = "raised"]
                         /\ raised' = [raised EXCEPT ![w] = TRUE]
                         /\ UNCHANGED worker_results
                    ELSE /\ wpc' = [wpc EXCEPT ![w] = "returned"]
                         /\ worker_results' =
                              [worker_results EXCEPT ![result_slot(w, completed_tasks)] = results[w]]
                         /\ UNCHANGED raised
    /\ UNCHANGED <<idx, row_data, results, child_jobs, waits, launches>>
    /\ UNCHANGED <<jobs, upload, jpc, oem_codes, chunks, all_results,
                   output_file, emails, start_method>>
    /\ UNCHANGED extvars

\* ------------------------------------------- run_scraper_job, continued
\* app.py:123-124 on pool.map's result slots
merge(slots) == Flatten(slots, num_workers)

\* pandas.DataFrame(all_results): one row per dict, one column per key
DataFrame(rows) ==
    LET cols == UNION {DOMAIN rows[i] : i \in 1..Len(rows)}
    IN  [i \in 1..Len(rows) |->
            [c \in cols |-> IF c \in DOMAIN rows[i] THEN rows[i][c] ELSE "nan"]]

\* app.py:122-124: pool.map returns when every task is done, and raises the
\* first task's exception if one failed
job_collect(id) ==
    /\ jpc = "map"
    /\ \A w \in WorkerIds : wpc[w] \in {"returned", "raised"}
    /\ IF \E w \in WorkerIds : wpc[w] = "raised"
       THEN /\ jobs' = on_exception(id, "Error: worker")
            /\ jpc' = "failed"
            /\ UNCHANGED all_results
       ELSE /\ all_results' = merge(worker_results)
            /\ jpc' = "save"
            /\ UNCHANGED jobs
    /\ UNCHANGED <<upload, oem_codes, chunks, worker_results,
                   output_file, emails, start_method, faults>>
    /\ UNCHANGED workervars
    /\ UNCHANGED extvars

\* app.py:127-128
job_save(id) ==
    /\ jpc = "save"
    /\ \E ok \in BOOLEAN :
          /\ ok \/ CanFault
          /\ faults' = IF ok THEN faults ELSE faults + 1
          /\ IF ok
             THEN /\ output_file' = [written |-> TRUE, rows |-> DataFrame(all_results)]
                  /\ jpc' = "mark"
                  /\ UNCHANGED jobs
             ELSE /\ jobs' = on_exception(id, "Error: write")
                  /\ jpc' = "failed"
                  /\ UNCHANGED output_file
    /\ UNCHANGED <<upload, oem_codes, chunks, worker_results,
                   all_results, emails, start_method>>
    /\ UNCHANGED workervars
    /\ UNCHANGED extvars

\* app.py:130-131
job_mark(id) ==
    /\ jpc = "mark"
    /\ jobs' = [jobs EXCEPT ![id].status = "completed",
                            ![id].message = "Scraping completed! Sending email..."]
    /\ jpc' = "email"
    /\ UNCHANGED <<upload, oem_codes, chunks, worker_results,
                   all_results, output_file, emails, start_method, faults>>
    /\ UNCHANGED workervars
    /\ UNCHANGED extvars

\* app.py:134-136; send_email_with_attachment re-raises what it catches
job_email(id) ==
    /\ jpc = "email"
    /\ \E ok \in BOOLEAN :
          /\ ok \/ CanFault
          /\ faults' = IF ok THEN faults ELSE faults + 1
          /\ IF ok
             THEN /\ emails' = emails + 1
                  /\ jobs' = [jobs EXCEPT ![id].message = "Email sent successfully!"]
                  /\ jpc' = "done"
             ELSE /\ jobs' = on_exception(id, "Error: email")
                  /\ jpc' = "failed"
                  /\ UNCHANGED emails
    /\ UNCHANGED <<upload, oem_codes, chunks, worker_results,
                   all_results, output_file, start_method>>
    /\ UNCHANGED workervars
    /\ UNCHANGED extvars

Next ==
    \/ \E id \in JobIds, file \in Uploads : start_scrape(id, file)
    \/ \E id \in JobIds : job_begin(id)
    \/ \E id \in JobIds : job_read(id)
    \/ \E id \in JobIds : job_dispatch(id)
    \/ \E w \in WorkerIds : worker_start(w)
    \/ \E w \in WorkerIds : worker_ink(w)
    \/ \E w \in WorkerIds : worker_hot(w)
    \/ \E w \in WorkerIds : worker_append(w)
    \/ \E w \in WorkerIds : worker_fault(w)
    \/ \E w \in WorkerIds : worker_finally(w)
    \/ \E id \in JobIds : job_collect(id)
    \/ \E id \in JobIds : job_save(id)
    \/ \E id \in JobIds : job_mark(id)
    \/ \E id \in JobIds : job_email(id)

Spec == Init /\ [][Next]_vars

\* ------------------------------------------------ the job under fairness
\* The background thread of a job runs on once started (app.py:243-249), and
\* the pool runs every task it was handed (app.py:116-117): a step of the
\* thread or of a worker that stays possible is taken.  Submissions are up to
\* the client.
JobStep(id) ==
    \/ job_begin(id)
    \/ job_read(id)
    \/ job_dispatch(id)
    \/ job_collect(id)
    \/ job_save(id)
    \/ job_mark(id)
    \/ job_email(id)

WorkerStep(w) ==
    \/ worker_start(w)
    \/ worker_ink(w)
    \/ worker_hot(w)
    \/ worker_append(w)
    \/ worker_fault(w)
    \/ worker_finally(w)

LiveUploads ==
    {[has_column |-> TRUE, column |-> Column(n)] : n \in 0..2}
    \cup {[has_column |-> FALSE, column |-> <<>>]}

NextLive ==
    \/ \E id \in JobIds, file \in LiveUploads : start_scrape(id, file)
    \/ \E id \in JobIds : JobStep(id)
    \/ \E w \in WorkerIds : WorkerStep(w)

Fairness ==
    /\ \A id \in JobIds : WF_vars(JobStep(id))
    /\ \A w \in WorkerIds : WF_vars(WorkerStep(w))

SpecLive == Init /\ [][NextLive]_vars /\ Fairness

\* ------------------------------------------- the adapters on their own
\* Each lookup called directly, as the modules' own entry points do
\* (selenium_scraper.py:304-317, hottoner_scraper.py:165-170,
\* inkstation_scraper.py:127-136): the stateless lookups on any answer of the
\* site, the browser lookup and close() on one instance in any order.
MaxCalls == 2

CodeSample == {1}

\* the instance the calls go to
Instance == 1

\* how the site answered a HotToner request
HotTransport(env) ==
    CASE env.response = "200"       -> "200"
      [] env.response = "404"       -> "404"
      [] env.response = "exception" -> "unreachable"
      [] OTHER                      -> "refused"

\* the index of the first answer among `outcomes` that ends the retries, or 0
Decisive(outcomes) ==
    LET D == {i \in DOMAIN outcomes : outcomes[i] \in {"200", "404"}}
    IN  IF D = {} THEN 0 ELSE CHOOSE i \in D : \A j \in D : i <= j

\* how the site answered the requests of one InkStation lookup
HttpInkTransport(env) ==
    CASE Decisive(env.attempts) # 0 -> env.attempts[Decisive(env.attempts)]
      [] \A i \in DOMAIN env.attempts :
            env.attempts[i] \in {"timeout", "connection_error"} -> "unreachable"
      [] OTHER -> "refused"

\* how the browser and the site answered one browser lookup of instance s
InkTransport(s, env) ==
    CASE s.driver = "none" /\ ~env.setup_ok -> "no_browser"
      [] ~env.get_ok                        -> "unreachable"
      [] OTHER                              -> "200"

Lookup(adapter, site, code, transport, page, outcome, launched) ==
    [adapter |-> adapter, site |-> site, code |-> code, transport |-> transport,
     page |-> page, raised |-> outcome.raised, result |-> outcome.result,
     launched |-> launched]

adapter_hottoner ==
    /\ \E code \in CodeSample, env \in HotEnvs :
          lookup' = Lookup("scrape_hottoner", "HotToner", code, HotTransport(env),
                           env.page, scrape_hottoner(code, env), 0)
    /\ UNCHANGED <<jobvars, workervars, faults, response>>

adapter_inkstation ==
    /\ \E code \in CodeSample, env \in HttpInkEnvs :
          lookup' = Lookup("scrape_inkstation", "InkStation", code,
                           HttpInkTransport(env), env.page,
                           http_scrape_inkstation(code, env), 0)
    /\ UNCHANGED <<jobvars, workervars, faults, response>>

instance_init ==
    /\ scraper[Instance] = NoScraper
    /\ scraper' = [scraper EXCEPT ![Instance] = SeleniumScraper]
    /\ UNCHANGED <<wpc, idx, row_data, results, raised, child_jobs, waits,
                   closes, quits, launches>>
    /\ UNCHANGED <<jobvars, faults, extvars>>

instance_scrape ==
    /\ scraper[Instance] # NoScraper
    /\ scraper[Instance].request_count < MaxCalls
    /\ \E code \in CodeSample, env \in InkEnvs :
          /\ scraper[Instance].driver = "live" => env.setup_ok
          /\ scraper[Instance].cloudflare_solved => env.solved_at = 0
          /\ LET r == scrape_inkstation(scraper[Instance], code, env)
             IN  /\ scraper' = [scraper EXCEPT ![Instance] = r.scraper]
                 /\ waits' = [waits EXCEPT ![Instance] = @ + r.waited]
                 /\ launches' = [launches EXCEPT ![Instance] = @ + r.launched]
                 /\ lookup' = Lookup("SeleniumScraper.scrape_inkstation",
                                     "InkStation", code,
                                     InkTransport(scraper[Instance], env),
                                     env.page, r, r.launched)
    /\ UNCHANGED <<wpc, idx, row_data, results, raised, child_jobs, closes, quits>>
    /\ UNCHANGED <<jobvars, faults, response>>

instance_close ==
    /\ scraper[Instance] # NoScraper
    /\ closes[Instance] < MaxCalls
    /\ \E quit_ok \in BOOLEAN :
          /\ quit_ok \/ scraper[Instance].driver = "live"
          /\ LET c == close(scraper[Instance], quit_ok)
             IN  /\ scraper' = [scraper EXCEPT ![Instance] = c.scraper]
                 /\ closes' = [closes EXCEPT ![Instance] = @ + 1]
                 /\ quits' = [quits EXCEPT ![Instance] = @ + c.quit]
    /\ lookup' = NoLookup
    /\ UNCHANGED <<wpc, idx, row_data, results, raised, child_jobs, waits, launches>>
    /\ UNCHANGED <<jobvars, faults, response>>

\* make_request called on its own, on any answers to its attempts, an
\* exception of any other kind among them
RequestOutcomes == AttemptOutcomes \cup {"error"}

request ==
    /\ \E outcomes \in [1..max_retries -> RequestOutcomes] :
          lookup' = [adapter |-> "make_request", outcomes |-> outcomes]
                    @@ make_request(outcomes)
    /\ UNCHANGED <<jobvars, workervars, faults, response>>

NextRequest == request

SpecRequest == Init /\ [][NextRequest]_vars

NextAdapters ==
    \/ adapter_hottoner
    \/ adapter_inkstation
    \/ instance_init
    \/ instance_scrape
    \/ instance_close

SpecAdapters == Init /\ [][NextAdapters]_vars

\* the start of the runs in which no lookup, write or delivery fails
InitFaultless ==
    /\ jobs = [id \in JobIds |-> NoJob]
    /\ upload = NoUpload
    /\ jpc = "none"
    /\ oem_codes = <<>>
    /\ chunks = [w \in WorkerIds |-> <<>>]
    /\ worker_results = [w \in WorkerIds |-> <<>>]
    /\ all_results = <<>>
    /\ output_file = [written |-> FALSE, rows |-> <<>>]
    /\ emails = 0
    /\ start_method \in StartMethods
    /\ wpc = [w \in WorkerIds |-> "idle"]
    /\ idx = [w \in WorkerIds |-> 0]
    /\ row_data = [w \in WorkerIds |-> NoRow]
    /\ results = [w \in WorkerIds |-> <<>>]
    /\ raised = [w \in WorkerIds |-> FALSE]
    /\ scraper = [w \in WorkerIds |-> NoScraper]
    /\ child_jobs = [w \in WorkerIds |-> [present |-> FALSE, current |-> 0]]
    /\ waits = [w \in WorkerIds |-> 0]
    /\ closes = [w \in WorkerIds |-> 0]
    /\ quits = [w \in WorkerIds |-> 0]
    /\ launches = [w \in WorkerIds |-> 0]
    /\ faults = MaxFaults
    /\ response = NoResponse
    /\ lookup = NoLookup

\* ------------------------------------------------------ the HTTP endpoints
\* The two endpoints on any request, next to a job that runs without a fault
\* of the environment.
ALLOWED_EXTENSIONS == {"xlsx", "xls"}

\* str.lower on the pieces of a file name
lower(piece) ==
    CASE piece = "XLS"  -> "xls"
      [] piece = "XLSX" -> "xlsx"
      [] OTHER          -> piece

Filenames ==
    {<<>>, <<"codes">>, <<"xlsx">>, <<"codes", ".">>, <<".", "xlsx">>,
     <<"codes", ".", "xlsx">>, <<"codes", ".", "xls">>, <<"codes", ".", "XLS">>,
     <<"codes", ".", "XLSX">>, <<"codes", ".", "csv">>,
     <<"codes", ".", "xlsx", ".", "csv">>, <<"codes", ".", "csv", ".", "xls">>,
     <<"codes", ".", "xls", "x">>}

\* a multipart request to /api/scrape: whether it has a 'file' part, the
\* 'email' form field ("none" when the field is missing) and the file name of
\* the part, cut into its dots and the text between them
Requests ==
    [has_file : BOOLEAN, email : {"none", "", "user@example.com"},
     filename : Filenames]

\* filename.rsplit('.', 1)[1]: the pieces after the last dot
rsplit_last(filename) ==
    LET dots == {i \in 1..Len(filename) : filename[i] = "."}
        last == CHOOSE i \in dots : \A j \in dots : j <= i
    IN  SubSeq(filename, last + 1, Len(filename))

\* a check of the name that lets every file through
any_file(filename) == TRUE

\* app.py:32-33
allowed_file(filename) ==
    /\ \E i \in 1..Len(filename) : filename[i] = "."
    /\ Len(rsplit_last(filename)) = 1
    /\ lower(rsplit_last(filename)[1]) \in ALLOWED_EXTENSIONS

\* app.py:207-221: the error a request is turned away with, "" if none
validate(req) ==
    CASE ~req.has_file                 -> "No file provided"
      [] req.email \in {"none", ""}    -> "No email provided"
      [] req.filename = <<>>           -> "No file selected"
      [] ~allowed_file(req.filename)   -> "Invalid file type. Only .xlsx and .xls allowed"
      [] OTHER                         -> ""

ApiUploads ==
    {[has_column |-> TRUE, column |-> Column(n)] : n \in 0..1}
    \cup {[has_column |-> FALSE, column |-> <<>>]}

\* app.py:203-257: start_scrape on any request
scrape_request(req) ==
    IF validate(req) # ""
    THEN /\ response' = [endpoint |-> "scrape", code |-> 400,
                         error |-> validate(req), job_id |-> "", job |-> NoJob]
         /\ UNCHANGED <<jobvars, workervars, faults, lookup>>
    ELSE \E save_ok \in BOOLEAN :
            IF ~save_ok
            THEN /\ response' = [endpoint |-> "scrape", code |-> 500,
                                 error |-> "save", job_id |-> "", job |-> NoJob]
                 /\ UNCHANGED <<jobvars, workervars, faults, lookup>>
            ELSE \E id \in JobIds, file \in ApiUploads :
                    /\ jobs[id] = NoJob
                    /\ jpc = "none"
                    /\ jobs' = [jobs EXCEPT ![id] =
                          [status |-> "pending",
                           progress |-> [current |-> 0, total |-> 0],
                           message |-> "Job queued"]]
                    /\ upload' = file
                    /\ jpc' = "start"
                    /\ response' = [endpoint |-> "scrape", code |-> 200,
                                    error |-> "", job_id |-> id, job |-> NoJob]
                    /\ UNCHANGED <<oem_codes, chunks, worker_results, all_results,
                                   output_file, emails, start_method, faults>>
                    /\ UNCHANGED workervars
                    /\ UNCHANGED lookup

\* the ids a client can poll: the ones the server issues and one it never does
PollIds == JobIds \cup {"j0"}

\* a registry that forgets a job once it has finished
in_unfinished_jobs(id) ==
    id \in JobIds /\ jobs[id].status \in {"pending", "running"}

\* `job_id in jobs`
in_jobs(id) == id \in JobIds /\ jobs[id] # NoJob

\* app.py:260-266
get_status(id) ==
    /\ response' =
          IF in_jobs(id)
          THEN [endpoint |-> "status", code |-> 200, error |-> "", job_id |-> id,
                job |-> jobs[id]]
          ELSE [endpoint |-> "status", code |-> 404, error |-> "Job not found",
                job_id |-> id, job |-> NoJob]
    /\ UNCHANGED <<jobvars, workervars, faults, lookup>>

NextApi ==
    \/ \E req \in Requests : scrape_request(req)
    \/ \E id \in PollIds : get_status(id)
    \/ \E id \in JobIds : job_begin(id)
    \/ \E id \in JobIds : job_read(id)
    \/ \E id \in JobIds : job_dispatch(id)
    \/ \E w \in WorkerIds : worker_start(w)
    \/ \E w \in WorkerIds : worker_ink(w)
    \/ \E w \in WorkerIds : worker_hot(w)
    \/ \E w \in WorkerIds : worker_append(w)
    \/ \E w \in WorkerIds : worker_finally(w)
    \/ \E id \in JobIds : job_collect(id)
    \/ \E id \in JobIds : job_save(id)
    \/ \E id \in JobIds : job_mark(id)
    \/ \E id \in JobIds : job_email(id)

SpecApi == InitFaultless /\ [][NextApi]_vars

\* ------------------------------------------- every column a file can hold
\* The job on any column of at most MaxRows cells, each empty or one of two
\* codes, in the runs where no lookup, write or delivery fails.
MaxRows == 3

Cells == {NaN, 1, 2}

ColumnsOfLength(n) == [1..n -> Cells]

ReadUploads ==
    {[has_column |-> TRUE, column |-> c] :
        c \in UNION {ColumnsOfLength(n) : n \in 0..MaxRows}}
    \cup {[has_column |-> FALSE, column |-> <<>>]}

NextRead ==
    \/ \E id \in JobIds, file \in ReadUploads : start_scrape(id, file)
    \/ \E id \in JobIds : job_begin(id)
    \/ \E id \in JobIds : job_read(id)
    \/ \E id \in JobIds : job_dispatch(id)
    \/ \E w \in WorkerIds : worker_start(w)
    \/ \E w \in WorkerIds : worker_ink(w)
    \/ \E w \in WorkerIds : worker_hot(w)
    \/ \E w \in WorkerIds : worker_append(w)
    \/ \E w \in WorkerIds : worker_finally(w)
    \/ \E id \in JobIds : job_collect(id)
    \/ \E id \in JobIds : job_save(id)
    \/ \E id \in JobIds : job_mark(id)
    \/ \E id \in JobIds : job_email(id)

SpecRead == InitFaultless /\ [][NextRead]_vars

\* ---------------------------------------------------------------- claims
Adapters == {"Ink Station", "Hot Tonner"}

Exited(w) == wpc[w] \in {"returned", "raised"}

RECURSIVE SumTo(_, _)
SumTo(f, n) == IF n = 0 THEN 0 ELSE SumTo(f, n - 1) + f[n]

\* the increments of progress.current the tasks of the job have completed
Increments == SumTo([w \in WorkerIds |-> child_jobs[w].current], num_workers)

\* the output was merged: the job thread is past app.py:124
Merged ==
    \/ jpc \in {"save", "mark", "email", "done"}
    \/ /\ jpc = "failed"
       /\ \E id \in JobIds : jobs[id].message \in {"Error: write", "Error: email"}

\* C1: a job whose status is completed has progress.current = progress.total
\* in the registry.
C1_ProgressCompleteAtCompletion ==
    \A id \in JobIds :
        jobs[id].status = "completed" =>
            jobs[id].progress.current = jobs[id].progress.total

\* C2: the registry's progress.current equals the number of increments the
\* workers have completed.
C2_NoLostIncrement ==
    \A id \in JobIds :
        jobs[id].status # "absent" => jobs[id].progress.current = Increments

Dispatched == \E w \in WorkerIds : wpc[w] # "idle"

ChunkStart(w) == SumTo([v \in WorkerIds |-> Len(chunks[v])], w - 1)

\* C4: the chunks are contiguous slices that partition the code list: each
\* chunk but the last has floor(L / W) codes, the last one the rest, every
\* code is in exactly one chunk, and the chunks concatenated in index order
\* are the code list.
C4_ChunksPartition ==
    Dispatched =>
        /\ \A w \in WorkerIds :
              chunks[w] = SubSeq(oem_codes, ChunkStart(w) + 1,
                                 ChunkStart(w) + Len(chunks[w]))
        /\ \A w \in WorkerIds \ {num_workers} :
              Len(chunks[w]) = Len(oem_codes) \div num_workers
        /\ ChunkStart(num_workers) + Len(chunks[num_workers]) = Len(oem_codes)
        /\ \A i \in 1..Len(oem_codes) :
              Cardinality({w \in WorkerIds : oem_codes[i] \in Range(chunks[w])}) = 1
        /\ Flatten(chunks, num_workers) = oem_codes

\* a list shorter than the worker count was chunked
C4_Witness ==
    /\ Dispatched
    /\ Len(oem_codes) = num_workers - 1
    /\ chunks[1] = <<>>
    /\ Len(chunks[num_workers]) = num_workers - 1

\* C5: a status that is completed or error never changes again.
C5_TerminalStatusStays ==
    [][\A id \in JobIds :
          jobs[id].status \in {"completed", "error"} =>
              jobs'[id].status = jobs[id].status]_vars

\* C6: no job has status completed before its e-mail was delivered.
C6_CompletedOnlyAfterDelivery ==
    \A id \in JobIds : jobs[id].status = "completed" => emails >= 1

\* C7: a fault at any stage of run_scraper_job ends the job thread with the
\* status error and the fault in the message; after a fault in a worker, in
\* the read or in the write no e-mail is sent, and after a fault in a worker
\* or in the read no output is written either.
C7_FaultFailsJob ==
    \A id \in JobIds :
        /\ jpc = "failed" =>
              /\ jobs[id].status = "error"
              /\ jobs[id].message \in
                    {"Error: read", "Error: worker", "Error: write", "Error: email"}
              /\ emails = 0
              /\ jobs[id].message \in {"Error: read", "Error: worker", "Error: write"}
                    => ~output_file.written
              /\ jobs[id].message = "Error: read" => ~Dispatched
        /\ (\E w \in WorkerIds : wpc[w] = "raised") =>
              /\ jpc \in {"map", "failed"}
              /\ jobs[id].status # "completed"
              /\ ~output_file.written
              /\ emails = 0

C7_Witness ==
    /\ jpc = "failed"
    /\ \E id \in JobIds : jobs[id].message = "Error: worker"
    /\ \E w \in WorkerIds : wpc[w] = "raised" /\ Len(results[w]) = 0

\* C8: the merged output is the workers' local outputs concatenated in
\* chunk-index order, so its codes are in the order of the code list, in
\* every order of completion of the workers.
C8_MergeInChunkOrder ==
    Merged =>
        /\ all_results = Flatten(results, num_workers)
        /\ [i \in 1..Len(all_results) |-> all_results[i].OEM_CODE] = oem_codes

C8_Witness ==
    /\ Merged
    /\ Cardinality({w \in WorkerIds : Len(results[w]) > 0}) >= 2

C10_CloseExactlyOnce ==
    \A w \in WorkerIds :
        /\ closes[w] = IF Exited(w) THEN 1 ELSE 0
        /\ quits[w] <= launches[w]
        /\ launches[w] <= 1
        /\ wpc[w] = "returned" => quits[w] = launches[w]

\* a worker whose loop was aborted by a fault closed the browser it had
\* launched
C10_Witness ==
    \E w \in WorkerIds :
        /\ wpc[w] = "raised"
        /\ Len(results[w]) < Len(chunks[w])
        /\ closes[w] = 1
        /\ launches[w] = 1
        /\ quits[w] = 1

\* C11: every lookup of a source adapter returns a record and never raises;
\* when the source answered with a non-200 status or could not be reached, the
\* record's availability is Not Available or Error, and the record keeps the
\* code and the attempted URL.
RecordFields == {"OEM_CODE", "Title", "Price", "Website", "Status", "URL"}

HttpAdapters == {"scrape_hottoner", "scrape_inkstation"}

NotFoundLookup ==
    \/ lookup.transport = "404"
    \/ lookup.transport = "200" /\ lookup.page \in {"none", "empty"}

FaultLookup ==
    \/ lookup.transport = "unreachable"
    \/ lookup.transport = "200" /\ lookup.page = "broken"

C12_FaultDistinctFromNotFound ==
    (lookup # NoLookup /\ lookup.adapter \in HttpAdapters) =>
        /\ NotFoundLookup => lookup.result.Status = "Not Available"
        /\ FaultLookup => lookup.result.Status = "Error"

\* the job thread is past the read of app.py:98-103
ReadDone == upload.has_column /\ jpc \notin {"none", "start", "read"}

\* the position of the first cell of column c that holds x
FirstAt(c, x) == CHOOSE i \in 1..Len(c) : c[i] = x /\ \A j \in 1..(i - 1) : c[j] # x

\* C13: the code list the job dispatches holds every distinct non-empty code
\* of the uploaded column exactly once (in the order of first appearance), the
\* job's progress.total is the length of that list, and the output has one row
\* per code of the list; a column [1, 1, 2] gives the list [1, 2], total 2 and
\* two rows.
C13_CodesDeduplicated ==
    ReadDone =>
        /\ \A i, j \in 1..Len(oem_codes) : i # j => oem_codes[i] # oem_codes[j]
        /\ Range(oem_codes) = Range(upload.column) \ {NaN}
        /\ \A i, j \in 1..Len(oem_codes) :
               i < j => FirstAt(upload.column, oem_codes[i])
                            < FirstAt(upload.column, oem_codes[j])
        /\ \A id \in JobIds : jobs[id].progress.total = Len(oem_codes)
        /\ upload.column = <<1, 1, 2>> =>
               /\ oem_codes = <<1, 2>>
               /\ \A id \in JobIds : jobs[id].progress.total = 2
        /\ output_file.written =>
               /\ Len(output_file.rows) = Len(oem_codes)
               /\ \A i \in 1..Len(oem_codes) :
                      output_file.rows[i].OEM_CODE = oem_codes[i]

C13_Witness ==
    /\ upload.has_column
    /\ upload.column = <<1, 1, 2>>
    /\ oem_codes = <<1, 2>>
    /\ output_file.written
    /\ Len(output_file.rows) = 2
    /\ \A id \in JobIds : jobs[id].status = "completed"

\* the submissions the endpoint has to turn away
Rejectable(req) ==
    \/ ~req.has_file
    \/ req.email \in {"none", ""}
    \/ req.filename = <<>>
    \/ ~(/\ Len(req.filename) >= 2
         /\ req.filename[Len(req.filename) - 1] = "."
         /\ req.filename[Len(req.filename)] \in {"xlsx", "xls", "XLSX", "XLS"})

\* C14: a submission without a file part, without an e-mail address, with an
\* empty file name or with an extension other than xlsx/xls is answered with a
\* client error (400); the job registry is left as it was and no job is
\* started.
\* (a step is the handling of such a submission only if it ends as stated)
C14_RejectionChangesNothing ==
    [][\/ /\ response'.endpoint = "scrape"
          /\ response'.code = 400
          /\ jobs' = jobs
          /\ jpc' = jpc
          /\ wpc' = wpc
          /\ upload' = upload
       \/ ~\E req \in Requests : Rejectable(req) /\ scrape_request(req)]_vars

C14_Witness ==
    /\ response.endpoint = "scrape"
    /\ response.code = 400
    /\ response.error = "Invalid file type. Only .xlsx and .xls allowed"
    /\ \A id \in JobIds : jobs[id] = NoJob
    /\ jpc = "none"

\* C15: a file without the code column is turned away when it is submitted:
\* no job record exists for it.
C15_InputFaultNeverCreatesJob ==
    (\E id \in JobIds : jobs[id] # NoJob) => upload.has_column

\* the server has issued the id: the job thread of the id was started
Created(id) == id \in JobIds /\ jpc # "none"

\* C16: a status poll answers not-found (404) exactly for an id no accepted
\* submission has created, and changes nothing; a record is never removed, so
\* an id that was created is found by every later poll.
C16_StatusFoundIffCreated ==
    [][/\ \A id \in PollIds :
             (response'.endpoint = "status" /\ get_status(id)) =>
                 /\ response'.code = 404 <=> ~Created(id)
                 /\ response'.code = 200 <=> Created(id)
                 /\ response'.code = 200 => response'.job = jobs[id]
                 /\ jobs' = jobs
       /\ \A id \in JobIds : jobs[id] # NoJob => jobs'[id] # NoJob]_vars

C16_Witness ==
    /\ response.endpoint = "status"
    /\ response.code = 200
    /\ response.job.status = "completed"
    /\ jpc = "done"

TerminalStatus == {"completed", "error"}

\* C17: every job an accepted submission created reaches the status completed
\* or error, provided the thread of the job and the workers keep running and
\* every lookup, wait, write and delivery returns or faults.
C17_JobTerminates ==
    \A id \in JobIds :
        (jobs[id] # NoJob) ~> (jobs[id].status \in TerminalStatus)

C17_Witness ==
    /\ \A id \in JobIds : jobs[id].status = "error"
    /\ \A w \in WorkerIds : Exited(w)
    /\ \E w \in WorkerIds : wpc[w] = "raised"
    /\ jpc = "failed"

\* the InkStation lookups worker w has been through
InkDone(w) == idx[w] + (IF wpc[w] \in {"hot", "append"} THEN 1 ELSE 0)

\* the lookups of worker w for which the browser did not start: the ones that
\* did not reach the count of selenium_scraper.py:124
SetupFailures(w) == InkDone(w) - scraper[w].request_count

AllSetupFailures == SumTo([w \in WorkerIds |-> SetupFailures(w)], num_workers)

\* the only faults so far are browsers that did not start
OnlySetupFailures == AllSetupFailures >= 1 /\ faults = AllSetupFailures

\* C18: a browser session that fails to start is absorbed: the lookup yields
\* the failure cell of the browser source, the worker goes on to the other
\* adapter and to the rest of its chunk, and the job does not fail.
C18_BrowserStartFailureAbsorbed ==
    /\ [](OnlySetupFailures =>
            /\ jpc # "failed"
            /\ \A id \in JobIds : jobs[id].status # "error"
            /\ \A w \in WorkerIds :
                  /\ ~raised[w]
                  /\ wpc[w] = "returned" =>
                        /\ Len(results[w]) = Len(chunks[w])
                        /\ \A i \in 1..Len(results[w]) :
                               results[w][i]["Hot Tonner"] = "$9.99")
    /\ [][\A w \in WorkerIds :
             (/\ wpc[w] = "ink"
              /\ scraper[w].driver = "none"
              /\ scraper'[w].driver = "none"
              /\ worker_ink(w)) =>
                 /\ wpc'[w] = "hot"
                 /\ ~raised'[w]
                 /\ row_data'[w]["Ink Station"] \in {"N/A", "Error"}
                 /\ jobs' = jobs
                 /\ jpc' = jpc]_vars

C18_Witness ==
    /\ OnlySetupFailures
    /\ jpc = "done"
    /\ \A id \in JobIds : jobs[id].status = "completed"
    /\ \E i \in 1..Len(output_file.rows) :
          /\ output_file.rows[i]["Ink Station"] = "N/A"
          /\ output_file.rows[i]["Hot Tonner"] = "$9.99"

\* close() has quit the browser of the instance and the instance holds none
Closed == quits[Instance] >= 1 /\ scraper[Instance].driver = "none"

\* C19: Closed is terminal: once close() has run on an instance, no later
\* lookup on it launches a browser, navigates or changes the instance.
C19_ClosedIsTerminal ==
    [][Closed =>
          /\ launches'[Instance] = launches[Instance]
          /\ scraper'[Instance] = scraper[Instance]]_vars

\* the buffer of worker w holds one row for each of the first idx[w] codes of
\* its chunk, in chunk order, each row with one cell of every adapter
BufferFollowsChunk(w) ==
    /\ idx[w] <= Len(chunks[w])
    /\ Len(results[w]) = idx[w]
    /\ \A i \in 1..idx[w] :
          /\ results[w][i].OEM_CODE = chunks[w][i]
          /\ DOMAIN results[w][i] = {"OEM_CODE"} \cup Adapters

\* C20: a worker goes through its chunk in order; for each code it calls every
\* adapter once, appends the row of the code to its buffer and then adds
\* exactly one to the progress counter of the job, also when a lookup faulted.
C20_OneIncrementPerCode ==
    Dispatched =>
        /\ \A w \in WorkerIds : BufferFollowsChunk(w)
        /\ \A id \in JobIds :
              jobs[id].progress.current =
                  SumTo([w \in WorkerIds |-> idx[w]], num_workers)

\* C21: in every state of a job, in the registry as in the copy of it a pool
\* process counts in, progress.current never decreases, progress.total does
\* not change once the job was dispatched to the workers, and
\* 0 <= progress.current <= progress.total.
C21_ProgressWithinBounds ==
    /\ [](\A id \in JobIds :
            jobs[id] # NoJob =>
                /\ 0 <= jobs[id].progress.current
                /\ jobs[id].progress.current <= jobs[id].progress.total
                /\ \A w \in WorkerIds :
                      /\ 0 <= child_jobs[w].current
                      /\ child_jobs[w].current <= jobs[id].progress.total)
    /\ [][\A id \in JobIds :
             jobs[id] # NoJob =>
                 /\ jobs'[id] # NoJob
                 /\ jobs'[id].progress.current >= jobs[id].progress.current
                 /\ Dispatched =>
                       jobs'[id].progress.total = jobs[id].progress.total
                 /\ \A w \in WorkerIds :
                       Dispatched => child_jobs'[w].current >= child_jobs[w].current]_vars

C21_Witness ==
    /\ Dispatched
    /\ \A id \in JobIds : jobs[id].progress.total = 2
    /\ \E w \in WorkerIds : child_jobs[w].current = 2
    /\ \A id \in JobIds : jobs[id].status = "completed"

\* C22: make_request ends without raising after at most max_retries
\* attempts: with the response at the first 200, with None at the first 404
\* and no attempt after it, and with None after max_retries attempts when
\* every attempt ended in another status, a timeout, a connection error or
\* another exception.
C22_MakeRequestTerminates ==
    lookup.adapter = "make_request" =>
        LET d == Decisive(lookup.outcomes)
        IN  /\ ~lookup.raised
            /\ lookup.attempts \in 1..max_retries
            /\ d # 0 =>
                  /\ lookup.attempts = d
                  /\ lookup.response =
                        IF lookup.outcomes[d] = "200" THEN "200" ELSE "None"
            /\ d = 0 =>
                  /\ lookup.attempts = max_retries
                  /\ lookup.response = "None"

C22_Witness ==
    /\ lookup.adapter = "make_request"
    /\ lookup.outcomes = <<"error", "404", "200">>
    /\ lookup.attempts = 2
    /\ lookup.response = "None"

====
